---- MODULE Spec2Model ----
(***************************************************************************)
(* Design-pattern demonstrations of Waheedsys/ei_exercise_1:                *)
(*   Singleton (DatabaseConnection), Factory (VehicleFactory),              *)
(*   Adapter (PayPalAdapter / StripeAdapter), Decorator (Coffee),           *)
(*   Observer (Stock), Command (RemoteControl).                             *)
(* The snippets share no state; each has its own variables and its own      *)
(* specification over the common initial state.                             *)
(***************************************************************************)
EXTENDS Integers, Sequences, FiniteSets, TLC

VARIABLES
    \* Singleton
    instance,      \* DatabaseConnection.instance: Undefined or an object identity
    constructed,   \* number of times the DatabaseConnection constructor ran
    returned,      \* identities handed out by getInstance(), in call order
    dbConsole,     \* console lines written by the constructor and by query()
    \* Factory
    vehicles,      \* Vehicle objects returned by createVehicle, in creation order
    facCalls,      \* arguments of the createVehicle calls made, in call order
    facResult,     \* outcome of the last createVehicle call (object or thrown Error)
    facConsole,    \* console lines written by drive()
    \* Command
    command,       \* RemoteControl.command: NoCommand until the first setCommand
    lightLog,      \* calls received by the Light objects, in order
    remoteTrace,   \* setCommand / pressButton calls made on the remote, in order
    remoteError,   \* error raised by the last call on the remote, or "none"
    \* Adapter
    adapters,      \* PaymentGateway adapter objects, in construction order
    builtWith,     \* the service instance each adapter's constructor was given
    paypalLog,     \* per PayPal instance: the sendPayment arguments received
    stripeLog,     \* per Stripe instance: the chargePayment arguments received
    payConsole,    \* console lines written by the payment services
    payTrace,      \* makePayment calls made, in order
    \* Decorator
    coffees,       \* Coffee objects, in construction order (index = identity)
    applied,       \* per Coffee object: the wrappers applied, innermost first
    observed,      \* per Coffee object: cost and description read at construction
    \* Observer
    arrays,        \* the Array objects allocated for Stock.observers (index = identity)
    observers,     \* Stock.observers: the Array object the field refers to
    price,         \* Stock.price
    stack,         \* active setPrice -> notifyObservers -> forEach calls, outermost first
    stockConsole,  \* console lines written by Investor.update
    stockTrace     \* calls on the Stock and update calls on observers, in order

singletonVars == <<instance, constructed, returned, dbConsole>>
factoryVars == <<vehicles, facCalls, facResult, facConsole>>
remoteVars == <<command, lightLog, remoteTrace, remoteError>>
adapterVars == <<adapters, builtWith, paypalLog, stripeLog, payConsole, payTrace>>
coffeeVars == <<coffees, applied, observed>>
stockVars == <<arrays, observers, price, stack, stockConsole, stockTrace>>
vars == <<singletonVars, factoryVars, remoteVars, adapterVars, coffeeVars, stockVars>>

Range(s) == {s[i] : i \in DOMAIN s}

(***************************************************************************)
(* Singleton: DatabaseConnection                                            *)
(***************************************************************************)
MaxCalls == 4          \* getInstance() calls explored
MaxDbConsole == 5      \* console lines explored
Sql == {"SELECT * FROM users", "SELECT 1"}

Undefined == 0         \* value of the static field before the first assignment

\* if (!DatabaseConnection.instance): an object reference is always truthy
AlwaysConstruct(inst) == TRUE
needsConstruction(inst) == inst = Undefined

\* private constructor(): a fresh identity, one console line
DatabaseConnection_new == constructed + 1

GetInstance ==
    /\ Len(returned) < MaxCalls
    /\ Len(dbConsole) < MaxDbConsole
    /\ IF needsConstruction(instance)
         THEN /\ instance' = DatabaseConnection_new
              /\ constructed' = constructed + 1
              /\ dbConsole' = Append(dbConsole, <<"New DatabaseConnection instance created.">>)
         ELSE UNCHANGED <<instance, constructed, dbConsole>>
    /\ returned' = Append(returned, instance')
    /\ UNCHANGED <<factoryVars, remoteVars, adapterVars, coffeeVars, stockVars>>

\* db.query(sql) on a reference obtained from getInstance()
Query ==
    /\ Len(dbConsole) < MaxDbConsole
    /\ \E db \in Range(returned), sql \in Sql :
          dbConsole' = Append(dbConsole, <<"Executing query: ", sql>>)
    /\ UNCHANGED <<instance, constructed, returned, factoryVars, remoteVars, adapterVars, coffeeVars, stockVars>>

(***************************************************************************)
(* Factory: VehicleFactory                                                  *)
(***************************************************************************)
MaxFacCalls == 3
MaxFacConsole == 3
Tags == {"car", "bike", "Car", "bikes", "truck", ""}

NoCall == [cls |-> "none"]
Error(message) == [cls |-> "Error", message |-> message]
Car == [cls |-> "Car"]
Bike == [cls |-> "Bike"]

\* Car.drive / Bike.drive: the line each writes
drive(v) == IF v.cls = "Car" THEN "Driving a car" ELSE "Riding a bike"

\* a factory that falls back to a Car instead of throwing
CreateVehicleDefaultCar(type) ==
    IF type = "bike" THEN Bike ELSE Car
createVehicle(type) ==
    IF type = "car" THEN Car
    ELSE IF type = "bike" THEN Bike
    ELSE Error("Vehicle type not supported")

CreateVehicle ==
    /\ Len(facCalls) < MaxFacCalls
    /\ \E type \in Tags :
         /\ facCalls' = Append(facCalls, type)
         /\ facResult' = createVehicle(type)
         /\ vehicles' = IF facResult'.cls = "Error" THEN vehicles
                        ELSE Append(vehicles, facResult')
    /\ UNCHANGED <<facConsole, singletonVars, remoteVars, adapterVars, coffeeVars, stockVars>>

Drive ==
    /\ Len(facConsole) < MaxFacConsole
    /\ \E i \in DOMAIN vehicles :
          facConsole' = Append(facConsole, drive(vehicles[i]))
    /\ UNCHANGED <<vehicles, facCalls, facResult, singletonVars, remoteVars, adapterVars, coffeeVars, stockVars>>

(***************************************************************************)
(* Command: RemoteControl, LightOnCommand, LightOffCommand, Light           *)
(***************************************************************************)
MaxRemoteOps == 4      \* calls on the remote explored
Lights == {1, 2}

\* private command: Command;  declared without an initialiser
NoCommand == [cls |-> "undefined"]
LightOnCommand(light) == [cls |-> "LightOnCommand", light |-> light]
LightOffCommand(light) == [cls |-> "LightOffCommand", light |-> light]
Commands == {LightOnCommand(l) : l \in Lights} \cup {LightOffCommand(l) : l \in Lights}

\* Light.on / Light.off: the call as the Light sees it, with the line it writes
Light_on(light) == [light |-> light, line |-> "Light is ON"]
Light_off(light) == [light |-> light, line |-> "Light is OFF"]

\* LightOnCommand.execute / LightOffCommand.execute
execute(c) ==
    IF c.cls = "LightOnCommand" THEN Light_on(c.light) ELSE Light_off(c.light)

\* a remote that keeps its first binding
KeepFirstCommand(old, c) == IF old = NoCommand THEN c ELSE old
\* this.command = command
setCommand(old, c) == c

SetCommand ==
    /\ Len(remoteTrace) < MaxRemoteOps
    /\ \E c \in Commands :
         /\ command' = setCommand(command, c)
         /\ remoteTrace' = Append(remoteTrace, [op |-> "setCommand", command |-> c])
    /\ remoteError' = "none"
    /\ UNCHANGED <<lightLog, singletonVars, factoryVars, adapterVars, coffeeVars, stockVars>>

\* this.command.execute(): reading 'execute' of undefined raises a TypeError
PressButton ==
    /\ Len(remoteTrace) < MaxRemoteOps
    /\ remoteTrace' = Append(remoteTrace, [op |-> "pressButton", command |-> NoCommand])
    /\ IF command = NoCommand
         THEN /\ remoteError' = "TypeError"
              /\ UNCHANGED lightLog
         ELSE /\ remoteError' = "none"
              /\ lightLog' = Append(lightLog, execute(command))
    /\ UNCHANGED <<command, singletonVars, factoryVars, adapterVars, coffeeVars, stockVars>>

(***************************************************************************)
(* Adapter: PayPalAdapter, StripeAdapter                                    *)
(***************************************************************************)
MaxAdapters == 2
MaxPayments == 3
PayPals == {1, 2}      \* PayPal instances
Stripes == {1, 2}      \* Stripe instances
Amounts == {100, 200}

\* constructors: the adapter stores the service it is given
PayPalAdapter(paypal) == [cls |-> "PayPalAdapter", paypal |-> paypal]
StripeAdapter(stripe) == [cls |-> "StripeAdapter", stripe |-> stripe]

\* PayPalAdapter.makePayment / StripeAdapter.makePayment: the native call made
PayInCents(ad, amount) ==
    IF ad.cls = "PayPalAdapter"
      THEN [method |-> "sendPayment", target |-> ad.paypal, amount |-> amount]
      ELSE [method |-> "chargePayment", target |-> ad.stripe, amount |-> amount * 100]
makePayment(ad, amount) ==
    IF ad.cls = "PayPalAdapter"
      THEN [method |-> "sendPayment", target |-> ad.paypal, amount |-> amount]
      ELSE [method |-> "chargePayment", target |-> ad.stripe, amount |-> amount]

NewPayPalAdapter ==
    /\ Len(adapters) < MaxAdapters
    /\ \E p \in PayPals :
         /\ adapters' = Append(adapters, PayPalAdapter(p))
         /\ builtWith' = Append(builtWith, [service |-> "PayPal", id |-> p])
    /\ UNCHANGED <<paypalLog, stripeLog, payConsole, payTrace,
                   singletonVars, factoryVars, remoteVars, coffeeVars, stockVars>>

NewStripeAdapter ==
    /\ Len(adapters) < MaxAdapters
    /\ \E st \in Stripes :
         /\ adapters' = Append(adapters, StripeAdapter(st))
         /\ builtWith' = Append(builtWith, [service |-> "Stripe", id |-> st])
    /\ UNCHANGED <<paypalLog, stripeLog, payConsole, payTrace,
                   singletonVars, factoryVars, remoteVars, coffeeVars, stockVars>>

\* gateway.makePayment(amount), with PayPal.sendPayment / Stripe.chargePayment
MakePayment ==
    /\ Len(payTrace) < MaxPayments
    /\ \E i \in DOMAIN adapters, amount \in Amounts :
         LET call == makePayment(adapters[i], amount) IN
         /\ payTrace' = Append(payTrace, [adapter |-> i, amount |-> amount])
         /\ IF call.method = "sendPayment"
              THEN /\ paypalLog' = [paypalLog EXCEPT ![call.target] = Append(@, call.amount)]
                   /\ payConsole' = Append(payConsole,
                         <<"Payment of $", call.amount, " made through PayPal.">>)
                   /\ UNCHANGED stripeLog
              ELSE /\ stripeLog' = [stripeLog EXCEPT ![call.target] = Append(@, call.amount)]
                   /\ payConsole' = Append(payConsole,
                         <<"Payment of $", call.amount, " made through Stripe.">>)
                   /\ UNCHANGED paypalLog
    /\ UNCHANGED <<adapters, builtWith, singletonVars, factoryVars, remoteVars, coffeeVars, stockVars>>

(***************************************************************************)
(* Decorator: Espresso, CoffeeDecorator, MilkDecorator, SugarDecorator      *)
(***************************************************************************)
MaxCoffees == 5        \* Coffee objects explored

Espresso == [cls |-> "Espresso", coffee |-> 0]
MilkDecorator(coffee) == [cls |-> "MilkDecorator", coffee |-> coffee]
SugarDecorator(coffee) == [cls |-> "SugarDecorator", coffee |-> coffee]

\* a MilkDecorator that inherits CoffeeDecorator.cost without overriding it
MilkCostInherited(inner) == inner
\* MilkDecorator.cost: this.coffee.cost() + 10
MilkDecorator_cost(inner) == inner + 10
\* SugarDecorator.cost: this.coffee.cost() + 5
SugarDecorator_cost(inner) == inner + 5

\* MilkDecorator.description: this.coffee.description() + ", Milk"
MilkDecorator_description(inner) == inner \o ", Milk"
\* SugarDecorator.description: this.coffee.description() + ", Sugar"
SugarDecorator_description(inner) == inner \o ", Sugar"

\* cost() dispatched on the object's class, over the objects of heap h
RECURSIVE cost(_, _)
cost(h, r) ==
    IF h[r].cls = "Espresso" THEN 50
    ELSE IF h[r].cls = "MilkDecorator" THEN MilkDecorator_cost(cost(h, h[r].coffee))
    ELSE SugarDecorator_cost(cost(h, h[r].coffee))

\* description() dispatched on the object's class
RECURSIVE description(_, _)
description(h, r) ==
    IF h[r].cls = "Espresso" THEN "Espresso"
    ELSE IF h[r].cls = "MilkDecorator"
      THEN MilkDecorator_description(description(h, h[r].coffee))
    ELSE SugarDecorator_description(description(h, h[r].coffee))

\* what the usage prints after building object r
Read(h, r) == [cost |-> cost(h, r), description |-> description(h, r)]

NewEspresso ==
    /\ Len(coffees) < MaxCoffees
    /\ coffees' = Append(coffees, Espresso)
    /\ applied' = Append(applied, <<>>)
    /\ observed' = Append(observed, Read(coffees', Len(coffees')))
    /\ UNCHANGED <<singletonVars, factoryVars, remoteVars, adapterVars, stockVars>>

NewMilkDecorator ==
    /\ Len(coffees) < MaxCoffees
    /\ \E r \in DOMAIN coffees :
         /\ coffees' = Append(coffees, MilkDecorator(r))
         /\ applied' = Append(applied, Append(applied[r], "Milk"))
    /\ observed' = Append(observed, Read(coffees', Len(coffees')))
    /\ UNCHANGED <<singletonVars, factoryVars, remoteVars, adapterVars, stockVars>>

NewSugarDecorator ==
    /\ Len(coffees) < MaxCoffees
    /\ \E r \in DOMAIN coffees :
         /\ coffees' = Append(coffees, SugarDecorator(r))
         /\ applied' = Append(applied, Append(applied[r], "Sugar"))
    /\ observed' = Append(observed, Read(coffees', Len(coffees')))
    /\ UNCHANGED <<singletonVars, factoryVars, remoteVars, adapterVars, stockVars>>

(***************************************************************************)
(* Observer: Stock, Investor                                                *)
(***************************************************************************)
MaxDriverCalls == 4    \* calls on the Stock made by the driver script
MaxObserverCalls == 1  \* calls on the Stock made from inside update
MaxDepth == 2          \* setPrice calls active at once
Investors == {1, 2}    \* investor1, investor2
Prices == {105, 110}
InitialPrice == 100

otherVars == <<singletonVars, factoryVars, remoteVars, adapterVars, coffeeVars>>

\* depth: the number of setPrice calls active when the call is made
Event(op, obs, value, before, after, round) ==
    [op |-> op, obs |-> obs, value |-> value,
     before |-> before, after |-> after, round |-> round, depth |-> Len(stack)]

DriverCalls ==
    Cardinality({i \in DOMAIN stockTrace :
                    stockTrace[i].op # "update" /\ stockTrace[i].depth = 0})
ObserverCalls ==
    Cardinality({i \in DOMAIN stockTrace :
                    stockTrace[i].op # "update" /\ stockTrace[i].depth > 0})

\* an add that puts the new subscriber in front
Unshift(arr, o) == <<o>> \o arr
\* Array.prototype.push
push(arr, o) == Append(arr, o)

\* a remove that drops only the first occurrence (indexOf + splice)
RemoveFirstOccurrence(arr, o) ==
    IF \E i \in DOMAIN arr : arr[i] = o
      THEN LET i == CHOOSE i \in DOMAIN arr :
                       arr[i] = o /\ \A j \in 1..(i - 1) : arr[j] # o
           IN SubSeq(arr, 1, i - 1) \o SubSeq(arr, i + 1, Len(arr))
      ELSE arr
\* this.observers.filter(o => o !== observer): a new array
filter(arr, o) == SelectSeq(arr, LAMBDA x : x # o)

\* a loop that reads the array's length again on every iteration
LiveLength(f) == Len(arrays[f.array])
\* forEach reads the length of the array once, before the first callback
forEachLen(f) == f.len

\* forEach keeps iterating the Array object it was called on
forEachArray(f) == f.array

\* a notification that passes the price its own setPrice call stored
PriceOfOwnCall(f) == stockTrace[f.round].value
\* observer.update(this.price): the field is read at each callback
updateArgument(f) == price

InUpdate == stack # <<>> /\ stack[Len(stack)].phase = "update"
DriverMayCall == stack = <<>> /\ DriverCalls < MaxDriverCalls
ObserverMayCall == InUpdate /\ ObserverCalls < MaxObserverCalls

\* addObserver(observer)
addObserver(o) ==
    /\ arrays' = [arrays EXCEPT ![observers] = push(@, o)]
    /\ stockTrace' = Append(stockTrace,
          Event("addObserver", o, 0, arrays[observers], arrays'[observers], 0))
    /\ UNCHANGED <<observers, price, stack, stockConsole, otherVars>>

\* removeObserver(observer)
removeObserver(o) ==
    /\ arrays' = Append(arrays, filter(arrays[observers], o))
    /\ observers' = Len(arrays')
    /\ stockTrace' = Append(stockTrace,
          Event("removeObserver", o, 0, arrays[observers], arrays'[observers'], 0))
    /\ UNCHANGED <<price, stack, stockConsole, otherVars>>

\* setPrice(newPrice) up to the first callback of notifyObservers' forEach
setPrice(v) ==
    /\ Len(stack) < MaxDepth
    /\ price' = v
    /\ stack' = Append(stack,
          [array |-> observers, len |-> Len(arrays[observers]), k |-> 0,
           phase |-> "loop", round |-> Len(stockTrace) + 1])
    /\ stockTrace' = Append(stockTrace,
          Event("setPrice", 0, v, arrays[observers], arrays[observers], 0))
    /\ UNCHANGED <<arrays, observers, stockConsole, otherVars>>

\* calls made by the driver script
DriverAddObserver == DriverMayCall /\ \E o \in Investors : addObserver(o)
DriverRemoveObserver == DriverMayCall /\ \E o \in Investors : removeObserver(o)
DriverSetPrice == DriverMayCall /\ \E v \in Prices : setPrice(v)

\* calls made by an observer from inside its update
ObserverAddObserver == ObserverMayCall /\ \E o \in Investors : addObserver(o)
ObserverRemoveObserver == ObserverMayCall /\ \E o \in Investors : removeObserver(o)
ObserverSetPrice == ObserverMayCall /\ \E v \in Prices : setPrice(v)

\* one iteration of forEach: the callback observer => observer.update(this.price)
CallUpdate ==
    /\ stack # <<>>
    /\ LET top == stack[Len(stack)]
           arr == arrays[forEachArray(top)]
       IN /\ top.phase = "loop"
          /\ top.k < forEachLen(top)
          /\ IF top.k < Len(arr)
               THEN /\ stack' = [stack EXCEPT ![Len(stack)].phase = "update"]
                    /\ stockTrace' = Append(stockTrace,
                          Event("update", arr[top.k + 1], updateArgument(top),
                                <<>>, <<>>, top.round))
                    /\ stockConsole' = Append(stockConsole,
                          <<arr[top.k + 1], " notified: New stock price is $",
                            updateArgument(top)>>)
               ELSE /\ stack' = [stack EXCEPT ![Len(stack)].k = @ + 1]
                    /\ UNCHANGED <<stockTrace, stockConsole>>
    /\ UNCHANGED <<arrays, observers, price, otherVars>>

\* the observer's update returns; forEach moves to the next index
ReturnUpdate ==
    /\ InUpdate
    /\ stack' = [stack EXCEPT ![Len(stack)] = [@ EXCEPT !.k = @ + 1, !.phase = "loop"]]
    /\ UNCHANGED <<arrays, observers, price, stockConsole, stockTrace, otherVars>>

\* forEach is past the last index; notifyObservers and setPrice return
ReturnSetPrice ==
    /\ stack # <<>>
    /\ LET top == stack[Len(stack)]
       IN top.phase = "loop" /\ top.k >= forEachLen(top)
    /\ stack' = SubSeq(stack, 1, Len(stack) - 1)
    /\ UNCHANGED <<arrays, observers, price, stockConsole, stockTrace, otherVars>>

(***************************************************************************)
(* Initial state and specifications                                         *)
(***************************************************************************)
Init ==
    /\ instance = Undefined
    /\ constructed = 0
    /\ returned = <<>>
    /\ dbConsole = <<>>
    /\ vehicles = <<>>
    /\ facCalls = <<>>
    /\ facResult = NoCall
    /\ facConsole = <<>>
    /\ command = NoCommand
    /\ lightLog = <<>>
    /\ remoteTrace = <<>>
    /\ remoteError = "none"
    /\ adapters = <<>>
    /\ builtWith = <<>>
    /\ paypalLog = [p \in PayPals |-> <<>>]
    /\ stripeLog = [st \in Stripes |-> <<>>]
    /\ payConsole = <<>>
    /\ payTrace = <<>>
    /\ coffees = <<>>
    /\ applied = <<>>
    /\ observed = <<>>
    /\ arrays = << <<>> >>
    /\ observers = 1
    /\ price = InitialPrice
    /\ stack = <<>>
    /\ stockConsole = <<>>
    /\ stockTrace = <<>>

NextSingleton == GetInstance \/ Query
SpecSingleton == Init /\ [][NextSingleton]_vars

NextFactory == CreateVehicle \/ Drive
SpecFactory == Init /\ [][NextFactory]_vars

NextRemote == SetCommand \/ PressButton
SpecRemote == Init /\ [][NextRemote]_vars

NextAdapter == NewPayPalAdapter \/ NewStripeAdapter \/ MakePayment
SpecAdapter == Init /\ [][NextAdapter]_vars

NextCoffee == NewEspresso \/ NewMilkDecorator \/ NewSugarDecorator
SpecCoffee == Init /\ [][NextCoffee]_vars

\* the Stock driven by a script, with observers that only print (Investor)
NextStock ==
    \/ DriverAddObserver \/ DriverRemoveObserver \/ DriverSetPrice
    \/ CallUpdate \/ ReturnUpdate \/ ReturnSetPrice
SpecStock == Init /\ [][NextStock]_vars

\* the Stock with observers whose update calls back into the Stock
NextStockReentrant ==
    \/ DriverAddObserver \/ DriverRemoveObserver \/ DriverSetPrice
    \/ ObserverAddObserver \/ ObserverRemoveObserver \/ ObserverSetPrice
    \/ CallUpdate \/ ReturnUpdate \/ ReturnSetPrice
SpecStockReentrant == Init /\ [][NextStockReentrant]_vars

\* the Stock with observers whose update calls setPrice and nothing else
NextStockNested ==
    \/ DriverAddObserver \/ DriverRemoveObserver \/ DriverSetPrice
    \/ ObserverSetPrice
    \/ CallUpdate \/ ReturnUpdate \/ ReturnSetPrice
SpecStockNested == Init /\ [][NextStockNested]_vars

(***************************************************************************)
(* Claims                                                                   *)
(***************************************************************************)

\* C1: every getInstance() call returns the same identity, and the
\* constructor has run exactly once as soon as one call has been made.
C1_SameInstance ==
    /\ \A i, j \in DOMAIN returned : returned[i] = returned[j]
    /\ Len(returned) >= 1 => constructed = 1
    /\ Len(returned) >= 1 => returned[1] = instance

C1_Witness == Len(returned) >= 3 /\ constructed = 1

\* C4: "car" gives a Car that drives as a car, "bike" a Bike that rides as a
\* bike, and every other tag throws 'Vehicle type not supported' and returns
\* no vehicle.
Recognised(calls) == SelectSeq(calls, LAMBDA t : t \in {"car", "bike"})

C4_Factory ==
    /\ facCalls # <<>> =>
          LET type == facCalls[Len(facCalls)] IN
          /\ type = "car" => facResult.cls = "Car" /\ drive(facResult) = "Driving a car"
          /\ type = "bike" => facResult.cls = "Bike" /\ drive(facResult) = "Riding a bike"
          /\ type \notin {"car", "bike"} =>
                /\ facResult.cls = "Error"
                /\ facResult.message = "Vehicle type not supported"
    /\ Len(vehicles) = Len(Recognised(facCalls))
    /\ \A i \in DOMAIN vehicles :
          vehicles[i].cls = IF Recognised(facCalls)[i] = "car" THEN "Car" ELSE "Bike"

C4_Witness ==
    /\ facCalls = <<"car", "bike", "truck">>
    /\ facResult.cls = "Error"
    /\ Len(vehicles) = 2 /\ vehicles[1].cls = "Car" /\ vehicles[2].cls = "Bike"

\* C5: every operation other than createVehicle with an unrecognised tag
\* completes without raising, in every reachable state; in particular no call
\* on a RemoteControl raises, and createVehicle raises only for a tag other
\* than "car" and "bike".
C5_AllOperationsTotal ==
    /\ remoteError = "none"
    /\ facResult.cls = "Error" => facCalls[Len(facCalls)] \notin {"car", "bike"}

\* C6: the calls received by the lights are exactly, press by press, the
\* effect of the command given to the most recent setCommand before that
\* press, once each and nothing else.
MostRecentSet(i) ==
    LET S == {j \in 1..i : remoteTrace[j].op = "setCommand"}
    IN IF S = {} THEN 0 ELSE CHOOSE j \in S : \A k \in S : k <= j

BoundPresses ==
    {i \in DOMAIN remoteTrace :
        remoteTrace[i].op = "pressButton" /\ MostRecentSet(i) # 0}

Effect(c) ==
    [light |-> c.light,
     line |-> IF c.cls = "LightOnCommand" THEN "Light is ON" ELSE "Light is OFF"]

C6_PressRunsBoundCommand ==
    /\ Len(lightLog) = Cardinality(BoundPresses)
    /\ \A i \in BoundPresses :
          lightLog[Cardinality({j \in BoundPresses : j <= i})]
             = Effect(remoteTrace[MostRecentSet(i)].command)

C6_Witness ==
    /\ Len(remoteTrace) = 4
    /\ remoteTrace[1] = [op |-> "setCommand", command |-> LightOnCommand(1)]
    /\ remoteTrace[2].op = "pressButton"
    /\ remoteTrace[3] = [op |-> "setCommand", command |-> LightOffCommand(1)]
    /\ remoteTrace[4].op = "pressButton"
    /\ lightLog = <<[light |-> 1, line |-> "Light is ON"],
                    [light |-> 1, line |-> "Light is OFF"]>>

\* C7: for every Coffee object, cost() is 50 plus 10 per Milk wrapper plus 5
\* per Sugar wrapper, description() is "Espresso" followed by the wrappers'
\* labels from innermost to outermost, Espresso + Milk + Sugar reads 65 and
\* "Espresso, Milk, Sugar", and an object keeps returning what it returned
\* when it was built, however it is wrapped afterwards.
Count(labels, x) == Cardinality({i \in DOMAIN labels : labels[i] = x})

RECURSIVE Suffix(_)
Suffix(labels) ==
    IF labels = <<>> THEN "" ELSE ", " \o Head(labels) \o Suffix(Tail(labels))

C7_DecoratorChain ==
    \A r \in DOMAIN coffees :
       /\ cost(coffees, r)
             = 50 + 10 * Count(applied[r], "Milk") + 5 * Count(applied[r], "Sugar")
       /\ description(coffees, r) = "Espresso" \o Suffix(applied[r])
       /\ applied[r] = <<"Milk", "Sugar">> =>
             /\ cost(coffees, r) = 65
             /\ description(coffees, r) = "Espresso, Milk, Sugar"
       /\ Read(coffees, r) = observed[r]

C7_Witness ==
    \E e, m, sg \in DOMAIN coffees :
       /\ coffees[e].cls = "Espresso"
       /\ coffees[m] = MilkDecorator(e)
       /\ coffees[sg] = SugarDecorator(m)
       /\ cost(coffees, sg) = 65
       /\ cost(coffees, m) = 60

\* C8: each PayPal instance has received, through sendPayment, exactly the
\* amounts of the makePayment calls made on the adapters built with it, in
\* call order and unchanged, and each Stripe instance likewise through
\* chargePayment; no instance has received anything else.
PaidThrough(service, id) ==
    LET calls == SelectSeq(payTrace,
                    LAMBDA e : builtWith[e.adapter] = [service |-> service, id |-> id])
    IN [j \in DOMAIN calls |-> calls[j].amount]

C8_AdapterDelegates ==
    /\ \A p \in PayPals : paypalLog[p] = PaidThrough("PayPal", p)
    /\ \A st \in Stripes : stripeLog[st] = PaidThrough("Stripe", st)

C8_Witness ==
    /\ \E p \in PayPals : Len(paypalLog[p]) >= 1
    /\ \E st \in Stripes : Len(stripeLog[st]) >= 1
    /\ Len(payTrace) = 3

(***************************************************************************)
(* Claims about the Stock, read off the recorded calls                      *)
(***************************************************************************)
RECURSIVE WithoutAll(_, _)
WithoutAll(list, o) ==
    IF list = <<>> THEN <<>>
    ELSE IF Head(list) = o THEN WithoutAll(Tail(list), o)
    ELSE <<Head(list)>> \o WithoutAll(Tail(list), o)

\* the subscribers after the first n recorded events, in subscription order
RECURSIVE Subscribed(_)
Subscribed(n) ==
    IF n = 0 THEN <<>>
    ELSE LET e == stockTrace[n]
         IN IF e.op = "addObserver" THEN Append(Subscribed(n - 1), e.obs)
            ELSE IF e.op = "removeObserver" THEN WithoutAll(Subscribed(n - 1), e.obs)
            ELSE Subscribed(n - 1)

Rounds == {r \in DOMAIN stockTrace : stockTrace[r].op = "setPrice"}
Deliveries(r) == SelectSeq(stockTrace, LAMBDA e : e.op = "update" /\ e.round = r)
Active(r) == \E i \in DOMAIN stack : stack[i].round = r

\* C2: with observers that only print, every setPrice(v) is followed
\* immediately by one update(v) per entry of the list held at the call, in
\* the order the entries were subscribed, and by no other update; the price
\* is v from the call on.
C2_NotifyInOrder ==
    /\ \A r \in Rounds :
         LET L == stockTrace[r].before
             v == stockTrace[r].value
             D == Deliveries(r)
         IN /\ L = Subscribed(r - 1)
            /\ Len(D) <= Len(L)
            /\ ~Active(r) => Len(D) = Len(L)
            /\ \A k \in DOMAIN D :
                  /\ stockTrace[r + k] = D[k]
                  /\ D[k].obs = L[k]
                  /\ D[k].value = v
            /\ (\A q \in Rounds : q <= r) => price = v
    /\ \A j \in DOMAIN stockTrace :
          stockTrace[j].op = "update" => stockTrace[j].round \in Rounds

C2_Witness ==
    /\ stack = <<>>
    /\ Len(stockTrace) = 5
    /\ stockTrace[1].op = "addObserver" /\ stockTrace[1].obs = 1
    /\ stockTrace[2].op = "addObserver" /\ stockTrace[2].obs = 2
    /\ stockTrace[3].op = "setPrice" /\ stockTrace[3].value = 105
    /\ stockTrace[4].op = "update" /\ stockTrace[4].obs = 1 /\ stockTrace[4].value = 105
    /\ stockTrace[5].op = "update" /\ stockTrace[5].obs = 2 /\ stockTrace[5].value = 105

\* C3: removeObserver(o) leaves the list without any occurrence of o and with
\* the other entries in their order (unchanged when o was not subscribed),
\* and no setPrice call made after it delivers to o unless o was added again
\* before that setPrice call.
C3_RemoveObserver ==
    \A i \in DOMAIN stockTrace :
       stockTrace[i].op = "removeObserver" =>
          LET e == stockTrace[i] IN
          /\ e.after = WithoutAll(e.before, e.obs)
          /\ e.obs \notin Range(e.after)
          /\ e.obs \notin Range(e.before) => e.after = e.before
          /\ \A j \in DOMAIN stockTrace :
                (/\ stockTrace[j].op = "update"
                 /\ stockTrace[j].obs = e.obs
                 /\ stockTrace[j].round > i)
                => \E k \in (i + 1)..(stockTrace[j].round - 1) :
                      /\ stockTrace[k].op = "addObserver"
                      /\ stockTrace[k].obs = e.obs

C3_Witness ==
    \E i \in DOMAIN stockTrace :
       /\ stockTrace[i].op = "removeObserver"
       /\ stockTrace[i].before = <<stockTrace[i].obs, stockTrace[i].obs>>
       /\ stockTrace[i].after = <<>>
       /\ \E r \in Rounds : r > i /\ ~Active(r) /\ Deliveries(r) = <<>>

\* C9: the updates of a setPrice call go, in order and once each, to the
\* entries of the list as it stood when that call started, whatever calls
\* observers make on the Stock meanwhile; the list a call starts with
\* reflects every addObserver and removeObserver made before it.
C9_RoundUsesListAtStart ==
    \A r \in Rounds :
       LET L == stockTrace[r].before
           D == Deliveries(r)
       IN /\ Len(D) <= Len(L)
          /\ \A k \in DOMAIN D : D[k].obs = L[k]
          /\ ~Active(r) => Len(D) = Len(L)
          /\ L = Subscribed(r - 1)

\* a finished round during which an observer removed a later subscriber, who
\* was still notified, or added one, who was not
C9_Witness ==
    \E r \in Rounds : \E i \in DOMAIN stockTrace :
       /\ ~Active(r)
       /\ i > r
       /\ stockTrace[i].depth > 0
       /\ \/ /\ stockTrace[i].op = "removeObserver"
             /\ \E j \in DOMAIN stockTrace :
                   /\ j > i
                   /\ stockTrace[j].op = "update"
                   /\ stockTrace[j].round = r
                   /\ stockTrace[j].obs = stockTrace[i].obs
          \/ /\ stockTrace[i].op = "addObserver"
             /\ stockTrace[i].obs \notin Range(stockTrace[r].before)

\* C10: when observers call setPrice from inside update, every update carries
\* the value of the most recent setPrice made before it, and once the
\* driver's setPrice has returned, the last update each subscribed observer
\* received carries the Stock's price.
LastSetPriceBefore(j) ==
    CHOOSE r \in Rounds : r < j /\ \A q \in Rounds : q < j => q <= r

UpdatesTo(o) ==
    {j \in DOMAIN stockTrace : stockTrace[j].op = "update" /\ stockTrace[j].obs = o}

LastDriverCall ==
    CHOOSE t \in DOMAIN stockTrace :
       /\ stockTrace[t].op # "update" /\ stockTrace[t].depth = 0
       /\ \A u \in DOMAIN stockTrace :
             (stockTrace[u].op # "update" /\ stockTrace[u].depth = 0) => u <= t

DriverSetPriceReturned ==
    /\ stack = <<>>
    /\ DriverCalls > 0
    /\ stockTrace[LastDriverCall].op = "setPrice"

C10_NestedSetPrice ==
    /\ \A j \in DOMAIN stockTrace :
          stockTrace[j].op = "update" =>
             stockTrace[j].value = stockTrace[LastSetPriceBefore(j)].value
    /\ DriverSetPriceReturned =>
          \A o \in Range(arrays[observers]) :
             \E j \in UpdatesTo(o) :
                /\ j > LastDriverCall
                /\ \A k \in UpdatesTo(o) : k <= j
                /\ stockTrace[j].value = price

\* the driver's setPrice(v) has returned, an observer replaced v from inside
\* update, and a subscribed observer never received v
C10_Witness ==
    /\ DriverSetPriceReturned
    /\ stockTrace[LastDriverCall].value # price
    /\ \E o \in Range(arrays[observers]) :
          \A j \in UpdatesTo(o) :
             j > LastDriverCall => stockTrace[j].value = price
====
